---- MODULE Spec2Model ----
(***************************************************************************)
(* Model of MyTradingStrategy (src/strategy.py): the market-making         *)
(* strategy of the dice derivatives game.  The engine object holds         *)
(* spread_width, dice_sides and team_name; make_market turns a roll        *)
(* history, a product catalog, positions and round_info into quotes.       *)
(*                                                                         *)
(* Numbers.  Python floats are modelled as exact reals.  Every value the   *)
(* strategy computes is of the form  a + b * sqrt(m)  with a, b rational   *)
(* and m a square-free natural (the standard error of the mean is the only *)
(* irrational quantity, and one call uses one sample), so values are       *)
(* records [a, b, m] and order and equality are decided exactly.           *)
(*                                                                         *)
(* Strings.  A product id is a sequence of one-character strings over the  *)
(* alphabet  S F C P X a b c 0-9 . - ,  and is split and parsed as         *)
(* str.split, int() and float() do on that alphabet (no exponent, "inf",   *)
(* "nan", "_", "+" or blanks occur in the modelled ids).                   *)
(***************************************************************************)
EXTENDS Integers, Sequences, FiniteSets, TLC

VARIABLES
    phase,                   \* "constructed" | "started"  (lifecycle position)
    spread_width,            \* self.spread_width
    dice_sides,              \* self.dice_sides
    team_name,               \* self.team_name ("<unset>" until on_game_start)
    products,                \* ids of marketplace.get_products(), fixed for the game
    training_rolls,          \* training_rolls of the last call
    current_rolls,           \* current_rolls of the last call
    positions,               \* my_trades.get_position(id) per product of the last call
    round_info,              \* round_info of the last call
    quotes,                  \* mapping returned by the last call
    expected_value_per_roll, \* local of the last call (None before any call)
    fair_values,             \* _calculate_fair_value result per product, last call
    all_rolls_mean,          \* all_rolls inside _calculate_expected_roll_value
    all_rolls_sem,           \* all_rolls inside _calculate_standard_error_of_mean
    std_error                \* value returned by _calculate_standard_error_of_mean

vars == <<phase, spread_width, dice_sides, team_name, products, training_rolls,
          current_rolls, positions, round_info, quotes, expected_value_per_roll,
          fair_values, all_rolls_mean, all_rolls_sem, std_error>>

\* Python None (a record, so that it compares with every modelled value)
None == [none |-> TRUE]

-----------------------------------------------------------------------------
(* Bounds of the model *)

\* total number of rolls (training plus current) handed to one call
MaxRolls == 2
\* largest magnitude of a net position
MaxPos == 5

-----------------------------------------------------------------------------
(* Exact rationals [n, d], d > 0, in lowest terms *)

Abs(x) == IF x < 0 THEN -x ELSE x

RECURSIVE Gcd(_, _)
Gcd(x, y) == IF y = 0 THEN x ELSE Gcd(y, x % y)

Rat(n, d) ==
    LET g == Gcd(Abs(n), Abs(d))
        s == IF d < 0 THEN -1 ELSE 1
    IN  [n |-> s * (n \div g), d |-> s * (d \div g)]

RInt(i) == [n |-> i, d |-> 1]
RAdd(x, y) == Rat(x.n * y.d + y.n * x.d, x.d * y.d)
RNeg(x) == [n |-> -x.n, d |-> x.d]
RSub(x, y) == RAdd(x, RNeg(y))
RMul(x, y) ==
    LET g1 == Gcd(Abs(x.n), y.d)
        g2 == Gcd(Abs(y.n), x.d)
    IN  IF x.n = 0 \/ y.n = 0 THEN RInt(0)
        ELSE Rat((x.n \div g1) * (y.n \div g2), (x.d \div g2) * (y.d \div g1))
RAbs(x) == [n |-> Abs(x.n), d |-> x.d]

\* a/b >= c/d for naturals a, c and positive b, d, by continued fractions
\* (no product is formed, so no intermediate value exceeds the operands)
RECURSIVE FracGeq(_, _, _, _)
FracGeq(a, b, c, d) ==
    LET qa == a \div b
        qc == c \div d
        ra == a % b
        rc == c % d
    IN  IF qa # qc THEN qa > qc
        ELSE IF rc = 0 THEN TRUE
        ELSE IF ra = 0 THEN FALSE
        ELSE FracGeq(d, rc, b, ra)

RGeq(x, y) ==
    IF x.n >= 0 /\ y.n <= 0 THEN TRUE
    ELSE IF x.n < 0 /\ y.n >= 0 THEN FALSE
    ELSE IF x.n >= 0 THEN FracGeq(x.n, x.d, y.n, y.d)
    ELSE FracGeq(-y.n, y.d, -x.n, x.d)

RGt(x, y) == ~RGeq(y, x)

-----------------------------------------------------------------------------
(* Reals a + b*sqrt(m): [a, b, m] with m square-free; b = 0 iff m = 1 *)

Real(a, b, m) == IF b.n = 0 \/ m = 1
                 THEN [a |-> IF m = 1 THEN RAdd(a, b) ELSE a, b |-> RInt(0), m |-> 1]
                 ELSE [a |-> a, b |-> b, m |-> m]

FromRat(r) == [a |-> r, b |-> RInt(0), m |-> 1]

\* the radicand shared by two values of one call
Radicand(x, y) == IF x.b.n # 0 THEN x.m ELSE y.m

Plus(x, y) == Real(RAdd(x.a, y.a), RAdd(x.b, y.b), Radicand(x, y))
Scale(x, r) == Real(RMul(x.a, r), RMul(x.b, r), x.m)
Minus(x, y) == Plus(x, Scale(y, RInt(-1)))

\* A + B*sqrt(m) >= 0  (strictly > 0 when strict)
SignTest(A, B, m, strict) ==
    LET absA == RAbs(A)
        absB == RAbs(B)
        \* |A| >= |B| * m  >= |B| * sqrt(m): the rational part decides
        dominated == RGeq(absA, RMul(absB, RInt(m)))
        \* otherwise compare (|A|/|B|)^2 with m:  X/Y >= m*Y/X
        X == absA.n * absB.d
        Y == absA.d * absB.n
        aWins == IF dominated THEN TRUE
                 ELSE IF X = 0 THEN FALSE
                 ELSE FracGeq(X, Y, m * Y, X)
    IN  IF B.n = 0 THEN (IF strict THEN A.n > 0 ELSE A.n >= 0)
        ELSE IF A.n >= 0 /\ B.n > 0 THEN TRUE
        ELSE IF A.n <= 0 /\ B.n < 0 THEN FALSE
        \* mixed signs: sqrt(m) is irrational, so |A| = |B|*sqrt(m) never holds
        ELSE IF A.n > 0 THEN aWins
        ELSE ~aWins

Geq(x, y) == LET z == Minus(x, y) IN SignTest(z.a, z.b, z.m, FALSE)
Gt(x, y) == LET z == Minus(x, y) IN SignTest(z.a, z.b, z.m, TRUE)
Leq(x, y) == Geq(y, x)
Lt(x, y) == Gt(y, x)

\* Python max(x, y): y when y > x, else x
PyMax(x, y) == IF Gt(y, x) THEN y ELSE x

-----------------------------------------------------------------------------
(* Product ids: str.split(","), int(), float() *)

Digits == {"0", "1", "2", "3", "4", "5", "6", "7", "8", "9"}

DigitVal(c) ==
    CASE c = "0" -> 0 [] c = "1" -> 1 [] c = "2" -> 2 [] c = "3" -> 3
      [] c = "4" -> 4 [] c = "5" -> 5 [] c = "6" -> 6 [] c = "7" -> 7
      [] c = "8" -> 8 [] c = "9" -> 9

\* s.split(sep): the fields between the separators (always at least one)
RECURSIVE SplitFrom(_, _, _, _)
SplitFrom(s, sep, i, field) ==
    IF i > Len(s) THEN <<field>>
    ELSE IF s[i] = sep THEN <<field>> \o SplitFrom(s, sep, i + 1, <<>>)
    ELSE SplitFrom(s, sep, i + 1, Append(field, s[i]))

Split(s, sep) == SplitFrom(s, sep, 1, <<>>)

AllDigits(t) == \A i \in 1..Len(t) : t[i] \in Digits

RECURSIVE DigitsValue(_)
DigitsValue(t) ==
    IF t = <<>> THEN 0
    ELSE 10 * DigitsValue(SubSeq(t, 1, Len(t) - 1)) + DigitVal(t[Len(t)])

RECURSIVE Pow10(_)
Pow10(k) == IF k = 0 THEN 1 ELSE 10 * Pow10(k - 1)

Unsigned(t) == IF t # <<>> /\ t[1] = "-" THEN Tail(t) ELSE t
SignOf(t) == IF t # <<>> /\ t[1] = "-" THEN -1 ELSE 1

\* int(t): an optional sign and one or more digits, else ValueError
ParseInt(t) ==
    LET u == Unsigned(t)
    IN  IF u # <<>> /\ AllDigits(u)
        THEN [ok |-> TRUE, v |-> SignOf(t) * DigitsValue(u)]
        ELSE [ok |-> FALSE]

\* float(t): an optional sign, digits with at most one point and at least
\* one digit, else ValueError
ParseFloat(t) ==
    LET u == Unsigned(t)
        dots == {i \in 1..Len(u) : u[i] = "."}
        dot == IF dots = {} THEN Len(u) + 1 ELSE CHOOSE i \in dots : TRUE
        ip == SubSeq(u, 1, dot - 1)
        fp == SubSeq(u, dot + 1, Len(u))
    IN  IF Cardinality(dots) <= 1 /\ AllDigits(ip) /\ AllDigits(fp)
           /\ Len(ip) + Len(fp) >= 1
        THEN [ok |-> TRUE,
              v |-> Rat(SignOf(t) * (DigitsValue(ip) * Pow10(Len(fp)) + DigitsValue(fp)),
                        Pow10(Len(fp)))]
        ELSE [ok |-> FALSE]

-----------------------------------------------------------------------------
(* Program constants *)

\* self.spread_width = 4.0 in __init__
SpreadWidthInit == 4
\* self.dice_sides = 6 in __init__, and the default of config.get("dice_sides", 6)
DefaultDiceSides == 6
\* the sub-round _calculate_expected_roll_value compares with
TerminalSubRound == 10
\* rolls per sub-round in _calculate_fair_value (2_000)
RollsPerSubRound == 2000
\* defaults of round_info.get
DefaultCurrentSubRound == 0
DefaultTotalSubRounds == 10
\* z_score = 1.645
ZScore == Rat(329, 200)
\* the divisor 3.46 of the empty-sample branch
EmptySampleDivisor == Rat(346, 100)
\* the floor 0.1 of the bid
PriceFloor == Rat(1, 10)

-----------------------------------------------------------------------------
(* numpy: mean, std, sqrt *)

RECURSIVE Sum(_)
Sum(rolls) == IF rolls = <<>> THEN 0 ELSE Head(rolls) + Sum(Tail(rolls))

RECURSIVE SumSq(_)
SumSq(rolls) == IF rolls = <<>> THEN 0
                ELSE Head(rolls) * Head(rolls) + SumSq(Tail(rolls))

\* np.mean of a non-empty list
NpMean(rolls) == Rat(Sum(rolls), Len(rolls))

\* population variance, the square of np.std
Variance(rolls) ==
    LET n == Len(rolls)
    IN  Rat(n * SumSq(rolls) - Sum(rolls) * Sum(rolls), n * n)

\* the largest k with k*k dividing x, for x >= 1
SquarePart(x) ==
    LET ks == {k \in 1..x : k * k <= x /\ x % (k * k) = 0}
    IN  CHOOSE k \in ks : \A j \in ks : j <= k

\* sqrt of a rational r >= 0:  sqrt(n/d) = sqrt(n*d)/d = (k/d) * sqrt(m)
Sqrt(r) ==
    IF r.n = 0 THEN FromRat(RInt(0))
    ELSE LET x == r.n * r.d
             k == SquarePart(x)
         IN  Real(RInt(0), Rat(k, r.d), x \div (k * k))

-----------------------------------------------------------------------------
(* The strategy's helpers *)

\* all_rolls of _calculate_expected_roll_value
ExpectedRollSample(training, current, current_sub_round) ==
    IF current_sub_round = TerminalSubRound THEN current
    ELSE training \o current

calculate_expected_roll_value(training, current, current_sub_round, sides) ==
    LET all_rolls == ExpectedRollSample(training, current, current_sub_round)
    IN  IF all_rolls = <<>> THEN Rat(1 + sides, 2)
        ELSE NpMean(all_rolls)

\* all_rolls of _calculate_standard_error_of_mean
StandardErrorSample(training, current) == training \o current

\* np.std(all_rolls) / np.sqrt(len(all_rolls)) = sqrt(variance / len)
calculate_standard_error_of_mean(training, current) ==
    LET all_rolls == StandardErrorSample(training, current)
    IN  IF all_rolls = <<>>
        THEN Scale(Sqrt(RInt(Len(all_rolls))), Rat(EmptySampleDivisor.d, EmptySampleDivisor.n))
        ELSE Sqrt(RMul(Variance(all_rolls), Rat(1, Len(all_rolls))))

update_spread(training, current) ==
    Scale(calculate_standard_error_of_mean(training, current), ZScore)

\* max(0, x) on rationals
RMax0(x) == IF x.n > 0 THEN x ELSE RInt(0)

\* a put priced with the call's payoff
OptionValuePutAsCall(type, expected_sum_at_expiry, strike_price) ==
    RMax0(RSub(expected_sum_at_expiry, strike_price))

\* max(0, expected_sum - strike) for a call, max(0, strike - expected_sum) for a put
OptionValue(type, expected_sum_at_expiry, strike_price) ==
    IF type = <<"C">>
    THEN RMax0(RSub(expected_sum_at_expiry, strike_price))
    ELSE RMax0(RSub(strike_price, expected_sum_at_expiry))

\* _calculate_fair_value: a rational, or None (the return None of the except
\* clause and of the fall-through)
calculate_fair_value(id, expected) ==
    LET data == Split(id, ",")
    IN  IF Len(data) < 2 THEN None                       \* data[1]: IndexError
        ELSE IF data[2] = <<"F">> THEN
            IF Len(data) < 3 THEN None                   \* data[2]: IndexError
            ELSE LET settlement_round == ParseInt(data[3])
                 IN  IF ~settlement_round.ok THEN None   \* ValueError
                     ELSE RMul(expected, RInt(settlement_round.v * RollsPerSubRound))
        ELSE IF data[2] \in {<<"C">>, <<"P">>} THEN
            IF Len(data) < 3 THEN None
            ELSE LET strike_price == ParseFloat(data[3])
                 IN  IF ~strike_price.ok THEN None
                     ELSE IF Len(data) < 4 THEN None
                     ELSE LET expiry_round == ParseInt(data[4])
                          IN  IF ~expiry_round.ok THEN None
                              ELSE LET expected_sum_at_expiry ==
                                           RMul(expected, RInt(expiry_round.v * RollsPerSubRound))
                                   IN  OptionValue(data[2], expected_sum_at_expiry,
                                                   strike_price.v)
        ELSE None

Get(dict, key, default) == IF key \in DOMAIN dict THEN dict[key] ELSE default

\* numeric_position of the loop body
NumericPosition(position) == IF position = None THEN 0 ELSE position.position

\* quoting with the spread the previous call left in the engine
QuotingSpreadStale(old_spread, new_spread) == old_spread

\* the spread make_market quotes with: the value it has just stored
QuotingSpread(old_spread, new_spread) == new_spread

\* the skew applied towards the position instead of against it
SkewedFairValueWithPosition(fair_value, spread, position) ==
    Plus(FromRat(fair_value),
         Scale(Scale(spread, Rat(1, 10)), RInt(NumericPosition(position))))

\* fair_value += (self.spread_width / 10) * (numeric_position * -1)
SkewedFairValue(fair_value, spread, position) ==
    Plus(FromRat(fair_value),
         Scale(Scale(spread, Rat(1, 10)), RInt(NumericPosition(position) * (-1))))

\* the (bid, ask) of one product with a fair value
QuoteOf(fair_value, spread, position) ==
    LET skewed == SkewedFairValue(fair_value, spread, position)
        half_spread == Scale(spread, Rat(1, 2))
    IN  [bid |-> PyMax(FromRat(PriceFloor), Minus(skewed, half_spread)),
         ask |-> Plus(skewed, half_spread)]

\* the dictionary make_market returns
QuotesOf(old_spread, sides, prods, training, current, pos, info) ==
    LET expected == calculate_expected_roll_value(
                        training, current,
                        Get(info, "current_sub_round", DefaultCurrentSubRound), sides)
        spread == QuotingSpread(old_spread, update_spread(training, current))
        priced == {id \in prods : calculate_fair_value(id, expected) # None}
    IN  [id \in priced |-> QuoteOf(calculate_fair_value(id, expected), spread, pos[id])]

-----------------------------------------------------------------------------
(* Inputs the game engine supplies *)

\* config of on_game_start: with and without the keys
Configs == { [dice_sides |-> 2, team_name |-> "alpha"],
             [team_name |-> "beta"] }

\* die faces that occur in the modelled roll histories
Faces == {1, 2}

FutureTen      == <<"S", ",", "F", ",", "1", "0">>
FutureFive     == <<"S", ",", "F", ",", "5">>
CallOne        == <<"S", ",", "C", ",", "3", "0", "0", "0", ",", "1">>
PutOne         == <<"S", ",", "P", ",", "3", "0", "0", "0", ",", "1">>
CallFrac       == <<"S", ",", "C", ",", "2", "5", "0", "0", ".", "5", ",", "1">>
UnknownType    == <<"S", ",", "X", ",", "1", "0", "0">>
BadStrike      == <<"S", ",", "C", ",", "a", "b", "c", ",", "5">>
BadExpiry      == <<"S", ",", "P", ",", "3", "0", "0", "0", ",", "1", ".", "5">>
BadSettlement  == <<"S", ",", "F", ",", "a">>
FutureShort    == <<"S", ",", "F">>
CallShort      == <<"S", ",", "C", ",", "3", "0", "0", "0">>
FutureLong     == <<"S", ",", "F", ",", "5", ",", "7">>
CallLong       == <<"S", ",", "C", ",", "3", "0", "0", "0", ",", "1", ",", "9">>
NoComma        == <<"S">>

ProductIds == { FutureTen, FutureFive, CallOne, PutOne, CallFrac, UnknownType, BadStrike, BadExpiry, BadSettlement,
                FutureShort, CallShort, FutureLong, CallLong, NoComma }

\* what marketplace.get_products() may list
Catalogs == {{}} \cup {{id} : id \in ProductIds}
            \cup { {CallOne, PutOne}, {FutureTen, UnknownType} }

\* what my_trades.get_position(id) may return
PositionValues == {None} \cup {[position |-> q] : q \in {-MaxPos, 0, MaxPos}}

RoundInfo(c, t) == [current_sub_round |-> c, total_sub_rounds |-> t]

RoundInfos == { [total_sub_rounds |-> 10], RoundInfo(10, 10), RoundInfo(5, 5) }

Snapshot(prods, training, current, pos, info) ==
    [products |-> prods, training_rolls |-> training, current_rolls |-> current,
     positions |-> pos, round_info |-> info]

\* The arguments of the next make_market call: the engine's previous snapshot
\* with one thing changed (a roll revealed, a new round, another round state,
\* a trade in a product the last call quoted), or the same snapshot again.
NextSnapshots ==
    LET same == Snapshot(products, training_rolls, current_rolls, positions, round_info)
        room == Len(training_rolls) + Len(current_rolls) < MaxRolls
        faces == {r \in Faces : r <= dice_sides}
    IN  {same}
        \cup {[same EXCEPT !.current_rolls = Append(current_rolls, r)] : r \in {f \in faces : room}}
        \cup {[same EXCEPT !.training_rolls = Append(training_rolls, r)] : r \in {f \in faces : room}}
        \cup {[same EXCEPT !.training_rolls = <<>>, !.current_rolls = <<>>]}
        \cup {[same EXCEPT !.round_info = ri] : ri \in RoundInfos}
        \cup {[same EXCEPT !.positions = [positions EXCEPT ![id_v[1]] = id_v[2]]] :
                 id_v \in (DOMAIN quotes) \X PositionValues}

-----------------------------------------------------------------------------
(* The strategy object *)

Init ==
    /\ phase = "constructed"
    /\ spread_width = FromRat(RInt(SpreadWidthInit))
    /\ dice_sides = DefaultDiceSides
    /\ team_name = "<unset>"
    /\ products \in Catalogs
    /\ training_rolls = <<>>
    /\ current_rolls = <<>>
    /\ positions = [id \in products |-> None]
    /\ round_info = [total_sub_rounds |-> 10]
    /\ quotes = [id \in {} |-> None]
    /\ expected_value_per_roll = None
    /\ fair_values = [id \in {} |-> None]
    /\ all_rolls_mean = <<>>
    /\ all_rolls_sem = <<>>
    /\ std_error = None

\* on_game_start(config), called once by the engine before the first round
on_game_start(config) ==
    /\ phase = "constructed"
    /\ phase' = "started"
    /\ dice_sides' = Get(config, "dice_sides", DefaultDiceSides)
    /\ team_name' = Get(config, "team_name", "Unknown")
    /\ UNCHANGED <<spread_width, products, training_rolls, current_rolls, positions,
                   round_info, quotes, expected_value_per_roll, fair_values,
                   all_rolls_mean, all_rolls_sem, std_error>>

\* make_market(marketplace, training_rolls, my_trades, current_rolls, round_info)
make_market(args) ==
    LET current_sub_round == Get(args.round_info, "current_sub_round", DefaultCurrentSubRound)
        expected == calculate_expected_roll_value(
                        args.training_rolls, args.current_rolls, current_sub_round, dice_sides)
    IN  /\ phase = "started"
        /\ products' = args.products
        /\ training_rolls' = args.training_rolls
        /\ current_rolls' = args.current_rolls
        /\ positions' = args.positions
        /\ round_info' = args.round_info
        /\ expected_value_per_roll' = expected
        /\ all_rolls_mean' = ExpectedRollSample(args.training_rolls, args.current_rolls,
                                                current_sub_round)
        /\ all_rolls_sem' = StandardErrorSample(args.training_rolls, args.current_rolls)
        /\ std_error' = calculate_standard_error_of_mean(args.training_rolls, args.current_rolls)
        /\ spread_width' = update_spread(args.training_rolls, args.current_rolls)
        /\ fair_values' = [id \in args.products |-> calculate_fair_value(id, expected)]
        /\ quotes' = QuotesOf(spread_width, dice_sides, args.products, args.training_rolls,
                              args.current_rolls, args.positions, args.round_info)
        /\ UNCHANGED <<phase, dice_sides, team_name>>

Next ==
    \/ \E config \in Configs : on_game_start(config)
    \/ \E args \in NextSnapshots : make_market(args)

Spec == Init /\ [][Next]_vars

-----------------------------------------------------------------------------
(* Vocabulary of the properties *)

\* make_market has returned at least once
Called == expected_value_per_roll # None

CurrentSubRound == Get(round_info, "current_sub_round", DefaultCurrentSubRound)
TotalSubRounds == Get(round_info, "total_sub_rounds", DefaultTotalSubRounds)

Fields(id) == Split(id, ",")
TypeCode(id) == IF Len(Fields(id)) >= 2 THEN Fields(id)[2] ELSE <<>>

\* the id formats of the product catalog: S,F,N and S,C,STRIKE,EXPIRY / S,P,STRIKE,EXPIRY
IsFutureId(id) ==
    /\ TypeCode(id) = <<"F">>
    /\ Len(Fields(id)) = 3
    /\ ParseInt(Fields(id)[3]).ok
IsOptionId(id) ==
    /\ TypeCode(id) \in {<<"C">>, <<"P">>}
    /\ Len(Fields(id)) = 4
    /\ ParseFloat(Fields(id)[3]).ok
    /\ ParseInt(Fields(id)[4]).ok
Malformed(id) == ~IsFutureId(id) /\ ~IsOptionId(id)

Zero == FromRat(RInt(0))
AbsVal(x) == IF Geq(x, Zero) THEN x ELSE Scale(x, RInt(-1))

\* what the last call quoted with: half the stored spread, and the centre
HalfSpread == Scale(spread_width, Rat(1, 2))
Center(id) == Minus(quotes[id].ask, HalfSpread)

\* the square of a value that is rational or a pure multiple of a root
SquareOf(x) == RAdd(RMul(x.a, x.a), RMul(RMul(x.b, x.b), RInt(x.m)))

-----------------------------------------------------------------------------
(* Properties *)

\* C1: every quoted (bid, ask) has 0.1 <= bid and bid <= ask.
C1_BidFloorAndOrder ==
    \A id \in DOMAIN quotes :
        /\ Geq(quotes[id].bid, FromRat(PriceFloor))
        /\ Leq(quotes[id].bid, quotes[id].ask)

\* C2: a product with a malformed id (wrong field count, non-numeric strike or
\* expiry/settlement, unknown type code) has no fair value and is not quoted.
C2_MalformedNeverQuoted ==
    \A id \in DOMAIN fair_values :
        Malformed(id) => fair_values[id] = None /\ id \notin DOMAIN quotes

\* C3: at the terminal sub-round (current_sub_round = total_sub_rounds) the fair
\* value of the future S,F,N with N = total_sub_rounds is the sum of current_rolls.
C3_TerminalFutureIsRollSum ==
    (Called /\ CurrentSubRound = TotalSubRounds) =>
        \A id \in DOMAIN fair_values :
            (IsFutureId(id) /\ ParseInt(Fields(id)[3]).v = TotalSubRounds)
                => fair_values[id] = RInt(Sum(current_rolls))

\* strikes and expiries of further call/put pairs, priced with the expected
\* value of the last call
StrikeTexts == { <<"2", "5", "0", "0", ".", "5">>, <<"7", "0", "0", "0", "0">> }
ExpiryTexts == { <<"5">>, <<"1", "0">> }
OptionId(type, strike, expiry) == <<"S", ",", type, ",">> \o strike \o <<",">> \o expiry

\* call - put = expected * N * 2000 - K, with neither negative
Parity(call, put, strike, expiry, expected) ==
    LET K == ParseFloat(strike).v
        N == ParseInt(expiry).v
        expected_total == RMul(expected, RInt(N * RollsPerSubRound))
    IN  /\ call # None
        /\ put # None
        /\ RSub(call, put) = RSub(expected_total, K)
        /\ call.n >= 0
        /\ put.n >= 0

\* C4: for a call and a put of equal strike K and expiry N,
\* call - put = expected_value_per_roll * N * 2000 - K, and neither is negative.
C4_PutCallParity ==
    /\ \A c \in DOMAIN fair_values, p \in DOMAIN fair_values :
           ( /\ IsOptionId(c) /\ TypeCode(c) = <<"C">>
             /\ IsOptionId(p) /\ TypeCode(p) = <<"P">>
             /\ Fields(c)[3] = Fields(p)[3]
             /\ Fields(c)[4] = Fields(p)[4] )
           => Parity(fair_values[c], fair_values[p], Fields(c)[3], Fields(c)[4],
                     expected_value_per_roll)
    /\ Called =>
           \A strike \in StrikeTexts, expiry \in ExpiryTexts :
               Parity(calculate_fair_value(OptionId("C", strike, expiry),
                                           expected_value_per_roll),
                      calculate_fair_value(OptionId("P", strike, expiry),
                                           expected_value_per_roll),
                      strike, expiry, expected_value_per_roll)

\* a call in the money by a non-zero amount was priced together with its put
C4_Witness ==
    /\ Called
    /\ {CallOne, PutOne} \subseteq DOMAIN fair_values
    /\ fair_values[CallOne] # None
    /\ fair_values[CallOne].n > 0
    /\ fair_values[PutOne] = RInt(0)

\* C5: the skewed centre is never further from the raw fair value than 90% of
\* the half-spread, so the raw fair value lies strictly between
\* centre - half_spread and centre + half_spread.
C5_SkewWithinMaxFraction ==
    \A id \in DOMAIN quotes :
        LET raw == FromRat(fair_values[id])
        IN  /\ Leq(AbsVal(Minus(Center(id), raw)), Scale(HalfSpread, Rat(9, 10)))
            /\ Lt(Minus(Center(id), HalfSpread), raw)
            /\ Lt(raw, Plus(Center(id), HalfSpread))

\* the quote of product id had the same call been made with position q for it
QuoteWithPosition(id, q) ==
    QuotesOf(spread_width, dice_sides, products, training_rolls, current_rolls,
             [positions EXCEPT ![id] = q], round_info)[id]

\* C6: between two calls that differ only in one product's net position, the
\* larger position has the lower or equal centre, ask and bid; with a zero or
\* absent position the centre is the raw fair value.
C6_SkewMonotone ==
    \A id \in DOMAIN quotes :
        /\ \A q \in PositionValues :
               NumericPosition(q) > NumericPosition(positions[id])
               => LET other == QuoteWithPosition(id, q)
                  IN  /\ Leq(other.ask, quotes[id].ask)
                      /\ Leq(other.bid, quotes[id].bid)
                      /\ Leq(Minus(other.ask, HalfSpread), Center(id))
        /\ NumericPosition(positions[id]) = 0 => Center(id) = FromRat(fair_values[id])

\* a product quoted with a non-zero spread while short: every larger position
\* gives a strictly lower ask
C6_Witness ==
    \E id \in DOMAIN quotes :
        /\ positions[id] = [position |-> -MaxPos]
        /\ spread_width # Zero
        /\ Lt(QuoteWithPosition(id, [position |-> 0]).ask, quotes[id].ask)

\* C7: the returned mapping depends only on the call's inputs and dice_sides:
\* it is the mapping a freshly constructed engine with the same dice_sides
\* returns for these inputs, whatever calls came before.
C7_QuotesDependOnInputsOnly ==
    Called =>
        quotes = QuotesOf(FromRat(RInt(SpreadWidthInit)), dice_sides, products,
                          training_rolls, current_rolls, positions, round_info)

\* a call that quoted a product traded after an earlier call, made when the
\* engine no longer holds the spread it was constructed with
C7_Witness ==
    /\ Called
    /\ \E id \in DOMAIN quotes : positions[id] # None
    /\ spread_width # FromRat(RInt(SpreadWidthInit))
    /\ spread_width # Zero

\* C8: make_market leaves every field of the engine unchanged.
C8_MakeMarketLeavesFieldsUnchanged ==
    [][phase = "started" =>
           /\ spread_width' = spread_width
           /\ dice_sides' = dice_sides
           /\ team_name' = team_name]_vars

\* C9: the sample of the mean estimate and of the deviation estimate is
\* current_rolls when current_sub_round = total_sub_rounds, and training_rolls
\* followed by current_rolls otherwise.
C9_SampleChoice ==
    Called =>
        LET sample == IF CurrentSubRound = TotalSubRounds THEN current_rolls
                      ELSE training_rolls \o current_rolls
        IN  all_rolls_mean = sample /\ all_rolls_sem = sample

\* C10: with no rolls at all the estimator returns the discrete-uniform
\* parameters: mean (1 + dice_sides)/2 and a deviation whose square is
\* (dice_sides^2 - 1)/12, positive for dice_sides >= 2.
C10_EmptySampleTheoretical ==
    (Called /\ training_rolls = <<>> /\ current_rolls = <<>>) =>
        /\ expected_value_per_roll = Rat(1 + dice_sides, 2)
        /\ SquareOf(std_error) = Rat(dice_sides * dice_sides - 1, 12)
        /\ Gt(std_error, Zero)

====
